---- MODULE Spec2Model ----
(***************************************************************************)
(* Model of scripts/upload_to_fluidtopics.py: one run of main(), which     *)
(* constructs a FluidTopicsUploader from the environment and calls         *)
(* deploy() -- create_package, upload_package (with                        *)
(* get_version_info and monitor_processing) and cleanup -- against an      *)
(* environment that chooses the outcome of every file-system, subprocess   *)
(* and HTTP call, and that may deliver a KeyboardInterrupt while the       *)
(* program is blocked in packaging, in the version lookup, in the upload   *)
(* request, in a status query or in a poll wait.                           *)
(***************************************************************************)
EXTENDS Integers, Sequences, FiniteSets, TLC

\* ---------------------------------------------------------------- bounds
\* Largest number of files (hidden ones included) the source tree holds.
MaxFiles == 3

\* Largest depth of an entry below the source directory.
MaxDepth == 2

\* Largest number of lines of a Markdown file.
MaxLines == 3

\* Largest number of files a lint or validation run finds.
MaxDocs == 2

\* ------------------------------------------------------ program constants
\* monitor_processing: max_attempts = 30
max_attempts == 30

\* ---------------------------------------------------------- environment
\* Exceptions the environment can raise inside a blocking call.
Exceptions == {"Exception", "KeyboardInterrupt"}

\* Exceptions requests.post can raise (Timeout and ConnectionError are
\* subclasses of Exception with their own handlers in upload_package).
PostExceptions == {"Timeout", "ConnectionError", "Exception", "KeyboardInterrupt"}

\* HTTP status codes the upload endpoint answers with.
UploadCodes == {200, 401, 413, 500}

\* Bodies of a 200 upload response: JSON with an upload_id, JSON without
\* one, or a body response.json() cannot parse.
UploadBodies == {"id", "noid", "badjson"}

\* HTTP status codes the status endpoint answers with.
StatusCodes == {200, 503}

\* Bodies of a 200 status response: the value of the 'status' field,
\* "nostatus" for a JSON object without that field, "badjson" for a body
\* response.json() cannot parse.
StatusBodies == {"completed", "failed", "processing", "queued", "uploading",
                 "Completed", "done", "nostatus", "badjson"}

\* A file or directory name is a sequence of characters, a path (relative
\* to the source directory) a sequence of names, the source tree a set of
\* entries, each a file or a directory at a path.
HiddenName == <<".", "h">>
PlainName == <<"a", ".", "m">>

File(path) == [path |-> path, dir |-> FALSE]
Dir(path) == [path |-> path, dir |-> TRUE]

\* The trees below a directory `prefix` with entries at most `depth` deep:
\* each name is absent, a file, or a directory with a tree below it.
RECURSIVE SubTrees(_, _)
SubTrees(prefix, depth) ==
    IF depth = 0
      THEN {{}}
      ELSE LET At(n) == Append(prefix, n)
               Opts(n) == {{}} \cup {{File(At(n))}} \cup
                          {{Dir(At(n))} \cup sub :
                               sub \in SubTrees(At(n), depth - 1)}
           IN  {a \cup b : a \in Opts(HiddenName), b \in Opts(PlainName)}

\* The source trees of the packaging specification.
Trees ==
    {t \in SubTrees(<<>>, MaxDepth) :
        Cardinality({e \in t : ~e.dir}) <= MaxFiles}

\* The source trees of the deployment specification: an empty directory,
\* a directory with a plain and a hidden file, and one with a plain and a
\* hidden subdirectory holding a file each.
SampleTrees ==
    { {},
      {File(<<PlainName>>), File(<<HiddenName>>)},
      {Dir(<<PlainName>>), File(<<PlainName, PlainName>>),
       Dir(<<HiddenName>>), File(<<HiddenName, PlainName>>)} }

\* An environment variable: unset, or set to a string (a sequence of
\* characters).
Unset == [set |-> FALSE, val |-> <<>>]
SetTo(str) == [set |-> TRUE, val |-> str]

\* Values of FLUID_URL, and of FLUID_USER and FLUID_PASS.
EnvUrlValues == {Unset, SetTo(<<>>), SetTo(<<"/">>), SetTo(<<"h", "/">>)}
EnvCredValues == {Unset, SetTo(<<>>), SetTo(<<"x">>)}

\* ------------------------------------------------------- pure functions
\* os.getenv(name, "")
Getenv(var) == IF var.set THEN var.val ELSE <<>>

\* str.rstrip('/')
RECURSIVE RStripSlash(_)
RStripSlash(str) ==
    IF Len(str) > 0 /\ str[Len(str)] = "/"
      THEN RStripSlash(SubSeq(str, 1, Len(str) - 1))
      ELSE str

\* __init__: all([self.base_url, self.username, self.password]); a string
\* is true when it is not empty.
ConfigValid_Any(url, user, pass) == Len(url) > 0 \/ Len(user) > 0 \/ Len(pass) > 0
ConfigValid(url, user, pass) == Len(url) > 0 /\ Len(user) > 0 /\ Len(pass) > 0

\* Which handlers catch which exceptions.  create_package, upload_package
\* monitor_processing and cleanup use `except Exception`, which does not catch
\* KeyboardInterrupt (a BaseException); get_version_info uses a bare
\* `except:`, which catches everything; deploy has an explicit
\* `except KeyboardInterrupt` followed by `except Exception`.
Catches_NoPollHandler(site, exc) ==
    CASE site = "get_version_info"   -> TRUE
      [] site = "deploy"             -> TRUE
      [] site = "monitor_processing" -> FALSE
      [] OTHER                       -> exc # "KeyboardInterrupt"
Catches_NoCleanupHandler(site, exc) ==
    CASE site = "get_version_info" -> TRUE
      [] site = "deploy"           -> TRUE
      [] site = "cleanup"          -> FALSE
      [] OTHER                     -> exc # "KeyboardInterrupt"
Catches(site, exc) ==
    CASE site = "get_version_info" -> TRUE
      [] site = "deploy"           -> TRUE
      [] OTHER                     -> exc # "KeyboardInterrupt"

\* A Python bool as the model records it.
PyBool(b) == IF b THEN "true" ELSE "false"

\* str.startswith('.')
StartsWithDot(name) == Len(name) > 0 /\ name[1] = "."

\* The entries of directory `dirPath` in tree `t` (one os.walk listing).
Children(t, dirPath) ==
    {e \in t : /\ Len(e.path) = Len(dirPath) + 1
               /\ SubSeq(e.path, 1, Len(dirPath)) = dirPath}

\* create_package: dirs[:] = [d for d in dirs if not d.startswith('.')]
PrunedDirs_NoPrune(dirs) == dirs
PrunedDirs(dirs) == {d \in dirs : ~StartsWithDot(d[Len(d)])}

\* create_package: where the walk goes on: the next file of the current
\* directory, the next directory, or the end of the loop.
WalkPc(todo, pending) ==
    IF pending # {} THEN "zip_write"
    ELSE IF todo # {} THEN "zip_walk"
    ELSE "checksum"

\* deploy: `if not self.create_package(): return False`
ProceedAfterPackage_NoCheck(ok) == TRUE
ProceedAfterPackage(ok) == ok

\* upload_package: the outcome of a response by status code.
UploadOutcomeOf(code) ==
    CASE code = 200 -> "Success"
      [] code = 401 -> "AuthFailure"
      [] code = 413 -> "PayloadTooLarge"
      [] OTHER      -> "ServerError"

\* upload_package: the value returned for an outcome that ends the upload
\* without polling.
UploadReturn_ServerErrorOk(outcome) == outcome \in {"Success", "ServerError"}
UploadReturn(outcome) == outcome = "Success"

\* monitor_processing: status = status_data.get('status', 'unknown')
GetStatus(body) == IF body = "nostatus" THEN "unknown" ELSE body

\* monitor_processing: the branch taken for a status label.
StatusBranch_AnyCase(status) ==
    CASE status \in {"completed", "Completed"}            -> "completed"
      [] status = "failed"                                -> "failed"
      [] status \in {"processing", "queued", "uploading"} -> "known"
      [] OTHER                                            -> "unknown"
StatusBranch(status) ==
    CASE status = "completed"                             -> "completed"
      [] status = "failed"                                -> "failed"
      [] status \in {"processing", "queued", "uploading"} -> "known"
      [] OTHER                                            -> "unknown"

\* monitor_processing: `while attempt < max_attempts`
LoopContinues_OffByOne(a) == a <= max_attempts
LoopContinues(a) == a < max_attempts

\* monitor_processing: the argument of time.sleep in each waiting branch.
sleep_seconds_UnknownShort(branch) == IF branch = "unknown" THEN 1 ELSE 10
sleep_seconds(branch) == 10

\* cleanup: `if Path(self.package_name).exists(): os.remove(...)`
ShouldRemove_Never(exists) == FALSE
ShouldRemove(exists) == exists

\* =========================================================== lint_docs.py
\* Text is a sequence of characters; a Markdown file is given by its lines
\* and by whether the last line ends with a newline.
NL == "\n"
\* The character U+0060 (grave accent), which a string of this language
\* cannot hold.
Backtick == "U+0060"
Whitespace == {" ", "\t", NL}

\* Lines the Markdown files are made of: an H1 and an H3 heading, a fence
\* with and without a language, plain text, an asterisk bullet, a link
\* with a generic text to an internal page.
H1Line == <<"#", " ", "T">>
H3Line == <<"#", "#", "#", " ", "U">>
FenceLangLine == <<Backtick, Backtick, Backtick, "p">>
FenceLine == <<Backtick, Backtick, Backtick>>
TextLine == <<"t">>
BulletLine == <<"*", " ", "b">>
LinkLine == <<"[", "H", "e", "r", "e", "]", "(", "a", ".", "m", "d", ")">>
LineVocab == {H1Line, H3Line, FenceLangLine, FenceLine, TextLine, BulletLine,
              LinkLine}

\* '\n'.join(lines)
RECURSIVE JoinLines(_)
JoinLines(lines) ==
    IF Len(lines) = 0 THEN <<>>
    ELSE IF Len(lines) = 1 THEN lines[1]
    ELSE lines[1] \o <<NL>> \o JoinLines(Tail(lines))

\* f.read(): the text of a file.
FileText(file) ==
    JoinLines(file.lines) \o (IF file.newline THEN <<NL>> ELSE <<>>)

\* A Markdown file of the docs directory.
MdFile(lines, newline, readable) ==
    [lines |-> lines, newline |-> newline, readable |-> readable]

\* content.split('\n')
RECURSIVE SplitLines(_)
SplitLines(text) ==
    IF \A i \in 1..Len(text) : text[i] # NL
      THEN <<text>>
      ELSE LET i == CHOOSE k \in 1..Len(text) :
                      text[k] = NL /\ \A j \in 1..(k - 1) : text[j] # NL
           IN  <<SubSeq(text, 1, i - 1)>> \o
               SplitLines(SubSeq(text, i + 1, Len(text)))

\* str.startswith(prefix) and str.endswith(suffix)
StartsWith(str, prefix) ==
    Len(str) >= Len(prefix) /\ SubSeq(str, 1, Len(prefix)) = prefix
EndsWith(str, suffix) ==
    /\ Len(str) >= Len(suffix)
    /\ SubSeq(str, Len(str) - Len(suffix) + 1, Len(str)) = suffix

\* len(line) - len(line.lstrip('#'))
RECURSIVE LeadingHashes(_)
LeadingHashes(line) ==
    IF Len(line) > 0 /\ line[1] = "#"
      THEN 1 + LeadingHashes(Tail(line)) ELSE 0

\* str.strip()
RECURSIVE Strip(_)
Strip(str) ==
    IF Len(str) > 0 /\ str[1] \in Whitespace THEN Strip(Tail(str))
    ELSE IF Len(str) > 0 /\ str[Len(str)] \in Whitespace
      THEN Strip(SubSeq(str, 1, Len(str) - 1))
    ELSE str

\* str.lower(), on the letters that occur.
LowerChar(c) ==
    CASE c = "H" -> "h" [] c = "T" -> "t" [] c = "U" -> "u" [] OTHER -> c
Lower(str) == [i \in 1..Len(str) |-> LowerChar(str[i])]

\* add_error / add_warning: one entry of self.errors or self.warnings.
Entry(file, kind, n) == [file |-> file, kind |-> kind, n |-> n]

\* What a check hands back: its return value and the entries it added.
CheckResult(ok, errs, warns) == [ok |-> ok, errs |-> errs, warns |-> warns]

\* check_heading_structure: the levels of the lines that start with '#'.
RECURSIVE HeadingLevels(_, _)
HeadingLevels(lines, i) ==
    IF i > Len(lines) THEN <<>>
    ELSE (IF StartsWith(lines[i], <<"#">>)
            THEN <<[level |-> LeadingHashes(lines[i]), line |-> i]>>
            ELSE <<>>) \o HeadingLevels(lines, i + 1)

\* check_heading_structure: `if h1_count != 1` adds the error.
H1CountOk_AtLeastOne(n) == n >= 1
H1CountOk(n) == n = 1

\* check_heading_structure (lines 72-96)
RECURSIVE JumpWarnings(_, _, _)
JumpWarnings(file, heads, i) ==
    IF i > Len(heads) THEN <<>>
    ELSE (IF heads[i].level > heads[i - 1].level + 1
            THEN <<Entry(file, "heading_jump", heads[i].line)>>
            ELSE <<>>) \o JumpWarnings(file, heads, i + 1)

check_heading_structure(file, content) ==
    LET heads == HeadingLevels(SplitLines(content), 1)
        h1_count == Cardinality({i \in 1..Len(heads) : heads[i].level = 1})
    IN  CheckResult(H1CountOk(h1_count),
                    IF H1CountOk(h1_count) THEN <<>>
                    ELSE <<Entry(file, "h1_count", h1_count)>>,
                    JumpWarnings(file, heads, 2))

\* check_code_blocks (lines 98-120): the loop over the lines, carrying
\* in_code_block and the warnings so far.
RECURSIVE CodeBlockScan(_, _, _, _, _)
CodeBlockScan(file, lines, i, in_code_block, warns) ==
    IF i > Len(lines) THEN [open |-> in_code_block, warns |-> warns]
    ELSE IF StartsWith(lines[i], <<Backtick, Backtick, Backtick>>)
      THEN IF ~in_code_block
             THEN CodeBlockScan(file, lines, i + 1, TRUE,
                      IF /\ Strip(SubSeq(lines[i], 4, Len(lines[i]))) = <<>>
                         /\ lines[i] = <<Backtick, Backtick, Backtick>>
                        THEN Append(warns, Entry(file, "no_language", i))
                        ELSE warns)
             ELSE CodeBlockScan(file, lines, i + 1, FALSE, warns)
      ELSE CodeBlockScan(file, lines, i + 1, in_code_block, warns)

check_code_blocks(file, content) ==
    LET scan == CodeBlockScan(file, SplitLines(content), 1, FALSE, <<>>)
    IN  CheckResult(~scan.open,
                    IF scan.open THEN <<Entry(file, "unclosed_block", 0)>>
                    ELSE <<>>,
                    scan.warns)

\* re.findall(r'\[([^\]]+)\]\(([^)]+)\)', content): the matches from
\* position i on, leftmost first and not overlapping.
RECURSIVE FindLinks(_, _)
FindLinks(text, i) ==
    IF i > Len(text) THEN <<>>
    ELSE
      LET Closers == {j \in (i + 2)..Len(text) :
                         /\ text[j] = "]"
                         /\ \A k \in (i + 1)..(j - 1) : text[k] # "]"}
          j == CHOOSE x \in Closers : TRUE
          Ends == {e \in (j + 3)..Len(text) :
                      /\ text[e] = ")"
                      /\ \A k \in (j + 2)..(e - 1) : text[k] # ")"}
          e == CHOOSE x \in Ends : TRUE
      IN  IF /\ text[i] = "["
             /\ Closers # {}
             /\ j + 1 <= Len(text) /\ text[j + 1] = "("
             /\ Ends # {}
            THEN <<[text |-> SubSeq(text, i + 1, j - 1),
                    url |-> SubSeq(text, j + 2, e - 1)]>> \o
                 FindLinks(text, e + 1)
            ELSE FindLinks(text, i + 1)

\* check_links: the link texts that are not descriptive.
GenericLinkTexts ==
    {<<"c", "l", "i", "c", "k", " ", "h", "e", "r", "e">>, <<"h", "e", "r", "e">>,
     <<"l", "i", "n", "k">>, <<"r", "e", "a", "d", " ", "m", "o", "r", "e">>}

\* check_links (lines 122-141); targetExists: (self.docs_dir / url).exists()
RECURSIVE LinkScan(_, _, _, _)
LinkScan(file, links, i, targetExists) ==
    IF i > Len(links) THEN CheckResult(TRUE, <<>>, <<>>)
    ELSE
      LET rest == LinkScan(file, links, i + 1, targetExists)
          generic == Lower(links[i].text) \in GenericLinkTexts
          broken == /\ EndsWith(links[i].url, <<".", "m", "d">>)
                    /\ ~StartsWith(links[i].url, <<"h", "t", "t", "p">>)
                    /\ ~targetExists
      IN  CheckResult(~broken /\ rest.ok,
                      (IF broken THEN <<Entry(file, "broken_link", i)>>
                       ELSE <<>>) \o rest.errs,
                      (IF generic THEN <<Entry(file, "link_text", i)>>
                       ELSE <<>>) \o rest.warns)

check_links(file, content, targetExists) ==
    LinkScan(file, FindLinks(content, 1), 1, targetExists)

\* check_line_endings (lines 143-148)
check_line_endings(file, content) ==
    IF ~EndsWith(content, <<NL>>)
      THEN CheckResult(FALSE, <<Entry(file, "no_newline", 0)>>, <<>>)
      ELSE CheckResult(TRUE, <<>>, <<>>)

\* re.match(r'^\s*\*\s', line)
RECURSIVE IsAsteriskBullet(_)
IsAsteriskBullet(line) ==
    IF Len(line) > 0 /\ line[1] \in Whitespace
      THEN IsAsteriskBullet(Tail(line))
      ELSE Len(line) >= 2 /\ line[1] = "*" /\ line[2] \in Whitespace

\* check_list_formatting (lines 150-160)
RECURSIVE BulletWarnings(_, _, _)
BulletWarnings(file, lines, i) ==
    IF i > Len(lines) THEN <<>>
    ELSE (IF IsAsteriskBullet(lines[i])
            THEN <<Entry(file, "asterisk_bullet", i)>> ELSE <<>>) \o
         BulletWarnings(file, lines, i + 1)

check_list_formatting(file, content) ==
    CheckResult(TRUE, <<>>, BulletWarnings(file, SplitLines(content), 1))

\* lint_file (lines 45-70): a file that cannot be read gives one error;
\* otherwise the five checks run in order, whatever the earlier ones said.
lint_file(file, fileState, targetExists) ==
    IF ~fileState.readable
      THEN CheckResult(FALSE, <<Entry(file, "read_failed", 0)>>, <<>>)
      ELSE
        LET content == FileText(fileState)
            r1 == check_heading_structure(file, content)
            r2 == check_code_blocks(file, content)
            r3 == check_links(file, content, targetExists)
            r4 == check_line_endings(file, content)
            r5 == check_list_formatting(file, content)
        IN  CheckResult(r1.ok /\ r2.ok /\ r3.ok /\ r4.ok /\ r5.ok,
                        r1.errs \o r2.errs \o r3.errs \o r4.errs \o r5.errs,
                        r1.warns \o r2.warns \o r3.warns \o r4.warns
                            \o r5.warns)

\* ======================================================= validate_yaml.py
\* What yaml.safe_load hands back: None, a string, an integer, a list, or
\* a mapping, which keeps its keys in the order of the file.
PyNone == [t |-> "none"]
PyStr(str) == [t |-> "str", v |-> str]
PyInt(n) == [t |-> "int", v |-> n]
PyList(items) == [t |-> "list", v |-> items]
PyDict(pairs) == [t |-> "dict", v |-> pairs]

\* isinstance(value, dict) and isinstance(value, str)
IsDict(value) == value.t = "dict"
IsStr(value) == value.t = "str"

\* The keys the validators look for.
k_site_name == <<"s", "i", "t", "e", "_", "n", "a", "m", "e">>
k_docs_dir == <<"d", "o", "c", "s", "_", "d", "i", "r">>
k_nav == <<"n", "a", "v">>
k_theme == <<"t", "h", "e", "m", "e">>
k_name == <<"n", "a", "m", "e">>
k_on == <<"o", "n">>
k_jobs == <<"j", "o", "b", "s">>
k_runs_on == <<"r", "u", "n", "s", "-", "o", "n">>
k_steps == <<"s", "t", "e", "p", "s">>
k_version == <<"v", "e", "r", "s", "i", "o", "n">>
k_services == <<"s", "e", "r", "v", "i", "c", "e", "s">>
k_image == <<"i", "m", "a", "g", "e">>
k_build == <<"b", "u", "i", "l", "d">>

\* A string of some documents directory, of a page, of anything else.
DocsDirName == <<"d", "o", "c", "s">>
PageName == <<"a", ".", "m", "d">>
SomeText == <<"x">>
DotMd == <<".", "m", "d">>

\* sub in str, for two strings.
IsSubstring(sub, str) ==
    \E i \in 1..(Len(str) + 1) :
        /\ i + Len(sub) - 1 <= Len(str)
        /\ SubSeq(str, i, i + Len(sub) - 1) = sub

\* key in dict
HasKey(dict, key) == \E i \in 1..Len(dict.v) : dict.v[i][1] = key

\* dict[key], for a key the mapping has.
DictGet(dict, key) ==
    dict.v[CHOOSE i \in 1..Len(dict.v) : dict.v[i][1] = key][2]

\* key in data, for any value: "true", "false", or "raise" for the
\* TypeError of a value that is not a container.
PyIn(key, data) ==
    CASE data.t = "dict" -> IF HasKey(data, key) THEN "true" ELSE "false"
      [] data.t = "list" ->
            IF \E i \in 1..Len(data.v) : data.v[i] = PyStr(key)
              THEN "true" ELSE "false"
      [] data.t = "str" -> IF IsSubstring(key, data.v) THEN "true" ELSE "false"
      [] OTHER -> "raise"

\* data[key] with a string key raises TypeError unless data is a mapping.
GetItemRaises(data) == ~IsDict(data)

\* What a validator hands back: its return value, the entries it added,
\* and whether an exception left it.
Outcome(ok, errs, warns, raised) ==
    [ok |-> ok, errs |-> errs, warns |-> warns, raised |-> raised]
Passed == Outcome(TRUE, <<>>, <<>>, FALSE)
Raised == Outcome(TRUE, <<>>, <<>>, TRUE)
OneError(file, kind, n) == Outcome(FALSE, <<Entry(file, kind, n)>>, <<>>, FALSE)
OneWarning(file, kind, n) == Outcome(TRUE, <<>>, <<Entry(file, kind, n)>>, FALSE)

\* Statement first, then statement second, unless first raised.
Then(first, second) ==
    IF first.raised THEN first
    ELSE Outcome(first.ok /\ second.ok, first.errs \o second.errs,
                 first.warns \o second.warns, second.raised)

\* for field in required_fields: if field not in data: add_error(...)
RECURSIVE RequiredFields(_, _, _, _)
RequiredFields(file, data, fields, i) ==
    IF i > Len(fields) THEN Passed
    ELSE Then(CASE PyIn(fields[i], data) = "raise" -> Raised
                [] PyIn(fields[i], data) = "false" ->
                       OneError(file, "missing_field", i)
                [] OTHER -> Passed,
              RequiredFields(file, data, fields, i + 1))

\* if key in data: body(data[key]), where outcome is what the body gives.
IfHasKey(data, key, outcome) ==
    CASE PyIn(key, data) = "raise" -> Raised
      [] PyIn(key, data) = "false" -> Passed
      [] GetItemRaises(data) -> Raised
      [] OTHER -> outcome

\* Path.exists() of a path below the configuration directory: the
\* directory itself is there; anything else is there or not as the
\* directory has it.
PathExists(relative, targetExists) == relative = <<>> \/ targetExists

\* validate_navigation, lines 146-152: the pairs of one item of nav.
RECURSIVE NavPairs(_, _, _, _)
NavPairs(file, pairs, i, targetExists) ==
    IF i > Len(pairs) THEN Passed
    ELSE LET path == pairs[i][2]
         IN  Then(IF IsStr(path) /\ EndsWith(path.v, DotMd)
                       /\ ~PathExists(path.v, targetExists)
                    THEN OneError(file, "nav_missing_file", 0)
                    ELSE Passed,
                  NavPairs(file, pairs, i + 1, targetExists))

RECURSIVE NavItems(_, _, _, _)
NavItems(file, items, i, targetExists) ==
    IF i > Len(items) THEN Passed
    ELSE Then(IF IsDict(items[i])
                THEN NavPairs(file, items[i].v, 1, targetExists)
                ELSE Passed,
              NavItems(file, items, i + 1, targetExists))

\* validate_navigation: for item in nav raises TypeError when nav is None
\* or a number; the items of a string and of a mapping are strings, which
\* the loop passes over.
validate_navigation(file, nav, targetExists) ==
    CASE nav.t = "list" -> NavItems(file, nav.v, 1, targetExists)
      [] nav.t \in {"str", "dict"} -> Passed
      [] OTHER -> Raised

\* validate_mkdocs_config
validate_mkdocs_config(file, data, targetExists) ==
    LET required == RequiredFields(file, data, <<k_site_name, k_docs_dir>>, 1)
        site_name ==
            IfHasKey(data, k_site_name,
                LET value == DictGet(data, k_site_name)
                IN  IF ~IsStr(value) \/ Strip(value.v) = <<>>
                      THEN OneError(file, "site_name_type", 0) ELSE Passed)
        docs_dir ==
            IfHasKey(data, k_docs_dir,
                LET value == DictGet(data, k_docs_dir)
                IN  CASE ~IsStr(value) -> Raised
                      [] ~PathExists(value.v, targetExists) ->
                             OneError(file, "docs_dir_missing", 0)
                      [] OTHER -> Passed)
        nav ==
            IfHasKey(data, k_nav,
                validate_navigation(file, DictGet(data, k_nav), targetExists))
        theme ==
            IfHasKey(data, k_theme,
                LET value == DictGet(data, k_theme)
                IN  CASE IsDict(value) ->
                             IF HasKey(value, k_name) THEN Passed
                             ELSE OneWarning(file, "theme_name", 0)
                      [] ~IsStr(value) -> OneError(file, "theme_type", 0)
                      [] OTHER -> Passed)
    IN  Then(required, Then(site_name, Then(docs_dir, Then(nav, theme))))

\* validate_github_workflow, lines 172-184: the jobs, in their order.
RECURSIVE JobChecks(_, _, _)
JobChecks(file, jobs, i) ==
    IF i > Len(jobs) THEN Passed
    ELSE LET job_config == jobs[i][2]
         IN  Then(IF ~IsDict(job_config)
                    THEN OneError(file, "job_type", i)
                    ELSE Then(IF HasKey(job_config, k_runs_on) THEN Passed
                              ELSE OneError(file, "job_runs_on", i),
                              IF HasKey(job_config, k_steps) THEN Passed
                              ELSE OneError(file, "job_steps", i)),
                  JobChecks(file, jobs, i + 1))

\* validate_github_workflow
validate_github_workflow(file, data) ==
    LET required == RequiredFields(file, data, <<k_name, k_on, k_jobs>>, 1)
        jobs ==
            IfHasKey(data, k_jobs,
                LET value == DictGet(data, k_jobs)
                IN  IF ~IsDict(value) THEN OneError(file, "jobs_type", 0)
                    ELSE JobChecks(file, value.v, 1))
    IN  Then(required, jobs)

\* validate_docker_compose, lines 206-215: the services, in their order.
RECURSIVE ServiceChecks(_, _, _)
ServiceChecks(file, services, i) ==
    IF i > Len(services) THEN Passed
    ELSE LET service_config == services[i][2]
         IN  Then(CASE ~IsDict(service_config) ->
                           OneError(file, "service_type", i)
                    [] ~HasKey(service_config, k_image)
                         /\ ~HasKey(service_config, k_build) ->
                           OneError(file, "service_image", i)
                    [] OTHER -> Passed,
                  ServiceChecks(file, services, i + 1))

\* validate_docker_compose
validate_docker_compose(file, data) ==
    LET version ==
            CASE PyIn(k_version, data) = "raise" -> Raised
              [] PyIn(k_version, data) = "false" ->
                     OneWarning(file, "no_version", 0)
              [] OTHER -> Passed
        services ==
            CASE PyIn(k_services, data) = "raise" -> Raised
              [] PyIn(k_services, data) = "false" ->
                     OneError(file, "no_services", 0)
              [] GetItemRaises(data) -> Raised
              [] ~IsDict(DictGet(data, k_services)) ->
                     OneError(file, "services_type", 0)
              [] OTHER -> ServiceChecks(file, DictGet(data, k_services).v, 1)
    IN  Then(version, services)

\* validate_generic_yaml
validate_generic_yaml(file, data) == Passed

\* A path below the configuration directory: its directories, and the
\* stem and the extension of its name.
YamlPath(dirs, stem, ext) == [dirs |-> dirs, stem |-> stem, ext |-> ext]

\* file_path.match('.github/workflows/*.yml')
IsWorkflowPath(path) ==
    /\ path.ext = "yml"
    /\ Len(path.dirs) >= 2
    /\ SubSeq(path.dirs, Len(path.dirs) - 1, Len(path.dirs))
         = <<".github", "workflows">>

\* run_specific_validation
run_specific_validation(file, path, data, targetExists) ==
    CASE path.stem = "mkdocs" /\ path.ext = "yml" ->
             validate_mkdocs_config(file, data, targetExists)
      [] IsWorkflowPath(path) -> validate_github_workflow(file, data)
      [] path.stem = "docker-compose" /\ path.ext = "yml" ->
             validate_docker_compose(file, data)
      [] OTHER -> validate_generic_yaml(file, data)

\* A YAML file of the project: its path, whether it can be read, whether
\* its text parses, and what it parses to.
YamlFile(path, readable, parses, data) ==
    [path |-> path, readable |-> readable, parses |-> parses, data |-> data]

\* validate_file
validate_file(file, fileState, targetExists) ==
    CASE ~fileState.readable -> OneError(file, "read_failed", 0)
      [] ~fileState.parses -> OneError(file, "invalid_syntax", 0)
      [] fileState.data = PyNone -> OneWarning(file, "empty_file", 0)
      [] OTHER -> run_specific_validation(file, fileState.path,
                                          fileState.data, targetExists)

\* ----------------------------------------------------------------- state
VARIABLES
    pc,             \* position of the single thread of control
    envUrl,         \* environment variable FLUID_URL
    envUser,        \* environment variable FLUID_USER
    envPass,        \* environment variable FLUID_PASS
    base_url,       \* self.base_url
    username,       \* self.username
    password,       \* self.password
    configError,    \* __init__ raised ValueError
    exitCode,       \* argument of sys.exit (-1: still running)
    sourceExists,   \* site/ or docs/ exists
    tree,           \* entries below the source directory
    archiveExists,  \* docs_package.zip is on disk
    writerOpen,     \* the zipfile.ZipFile writer is open
    filesAdded,     \* files_added
    walkTodo,       \* directories os.walk has still to list
    pendingFiles,   \* files of the listed directory not yet looked at
    members,        \* arcnames written to the archive
    checksumAt,     \* writer state when calculate_checksum read the archive
    pkgResult,      \* return value of create_package
    versionLabel,   \* kind of label get_version_info returned
    posts,          \* number of requests.post calls issued
    uploadCode,     \* status code of the upload response (0: none)
    uploadOutcome,  \* how the upload request ended
    uploadBody,     \* body of a 200 upload response ("none": no such response)
    attempt,        \* monitor_processing: attempt
    queries,        \* number of requests.get calls issued
    waits,          \* number of completed time.sleep calls
    slept,          \* total time slept
    labelQueries,   \* status queries answered with a non-terminal label
    failedQueries,  \* status queries that failed (non-200 or an Exception)
    lastStatus,     \* status label of the latest 200 status response
    waitBranch,     \* branch of monitor_processing that is about to sleep
    pollOutcome,    \* which return of monitor_processing was taken
    success,        \* deploy: success
    result,         \* return value of deploy
    cleanupRuns,    \* number of calls of cleanup
    removeRaised,   \* os.remove raised inside cleanup
    interrupted,    \* a KeyboardInterrupt was delivered
    caught,         \* deploy's `except KeyboardInterrupt` ran
    program,        \* which script runs: "upload", "lint" or "yaml"
    files,          \* the files the glob of a lint or validation run found
    targetsExist,   \* the paths that links and configurations name exist
    chkPc,          \* position of a lint or validation run
    fileIdx,        \* files the loop of the run has gone through
    errors,         \* self.errors
    warnings,       \* self.warnings
    runSuccess,     \* lint_all_files / validate_all_files: success
    runResult,      \* return value of lint_all_files / validate_all_files
    chkExit         \* argument of sys.exit of the script (-1: none)

vars == <<pc, envUrl, envUser, envPass, base_url, username, password,
          configError, exitCode, sourceExists, tree, archiveExists, writerOpen,
          filesAdded, walkTodo, pendingFiles, members,
          checksumAt, pkgResult, versionLabel, posts, uploadCode,
          uploadOutcome, uploadBody, attempt, queries, waits, slept, labelQueries,
          failedQueries, lastStatus, waitBranch, pollOutcome, success,
          result, cleanupRuns, removeRaised, interrupted, caught, program,
          files, targetsExist, chkPc, fileIdx, errors, warnings, runSuccess,
          runResult, chkExit>>

mainVars == <<envUrl, envUser, envPass, base_url, username, password,
              configError, exitCode>>
envVars  == <<sourceExists, tree>>
walkVars == <<filesAdded, walkTodo, pendingFiles, members>>
pkgVars  == <<archiveExists, writerOpen, walkVars, checksumAt, pkgResult>>
upVars   == <<versionLabel, posts, uploadCode, uploadOutcome, uploadBody>>
pollVars == <<attempt, queries, waits, slept, labelQueries, failedQueries,
              lastStatus, waitBranch, pollOutcome>>
endVars  == <<success, result, cleanupRuns, removeRaised>>
intVars  == <<interrupted, caught>>
chkVars  == <<program, files, targetsExist, chkPc, fileIdx, errors, warnings,
              runSuccess, runResult, chkExit>>

\* No lint or validation run: the state of these variables while the
\* upload script runs.
CheckerIdle ==
    /\ program = "upload"
    /\ files = <<>>
    /\ targetsExist = FALSE
    /\ chkPc = "idle"
    /\ fileIdx = 0
    /\ errors = <<>>
    /\ warnings = <<>>
    /\ runSuccess = "none"
    /\ runResult = "none"
    /\ chkExit = -1

Init ==
    /\ pc = "main"
    /\ envUrl \in EnvUrlValues
    /\ envUser \in EnvCredValues
    /\ envPass \in EnvCredValues
    /\ base_url = <<>>
    /\ username = <<>>
    /\ password = <<>>
    /\ configError = FALSE
    /\ exitCode = -1
    /\ sourceExists \in BOOLEAN
    /\ tree \in SampleTrees
    /\ ~sourceExists => tree = {}
    /\ archiveExists = FALSE
    /\ writerOpen = FALSE
    /\ filesAdded = 0
    /\ walkTodo = {}
    /\ pendingFiles = {}
    /\ members = {}
    /\ checksumAt = "none"
    /\ pkgResult = "none"
    /\ versionLabel = "none"
    /\ posts = 0
    /\ uploadCode = 0
    /\ uploadOutcome = "none"
    /\ uploadBody = "none"
    /\ attempt = 0
    /\ queries = 0
    /\ waits = 0
    /\ slept = 0
    /\ labelQueries = 0
    /\ failedQueries = 0
    /\ lastStatus = "none"
    /\ waitBranch = "none"
    /\ pollOutcome = "none"
    /\ success = "none"
    /\ result = "none"
    /\ cleanupRuns = 0
    /\ removeRaised = FALSE
    /\ interrupted = FALSE
    /\ caught = FALSE
    /\ CheckerIdle

\* ------------------------------------------------------------------ main
\* main, lines 280-281 and 291-297, with __init__, lines 24-34: read the
\* configuration; a ValueError from the constructor ends the process with
\* sys.exit(1) before deploy() is called.
Construct ==
    /\ pc = "main"
    /\ base_url' = RStripSlash(Getenv(envUrl))
    /\ username' = Getenv(envUser)
    /\ password' = Getenv(envPass)
    /\ IF ConfigValid(RStripSlash(Getenv(envUrl)), Getenv(envUser),
                      Getenv(envPass))
         THEN /\ pc' = "create_package"
              /\ UNCHANGED <<configError, exitCode>>
         ELSE /\ configError' = TRUE
              /\ exitCode' = 1
              /\ pc' = "exited"
    /\ UNCHANGED <<envUrl, envUser, envPass, envVars, chkVars, pkgVars, upVars,
                   pollVars, endVars, intVars>>

\* main, lines 282-289: the exit code after deploy() returned.
MainExit ==
    /\ pc = "done"
    /\ exitCode' = IF result = "true" THEN 0 ELSE 1
    /\ pc' = "exited"
    /\ UNCHANGED <<envUrl, envUser, envPass, base_url, username, password,
                   configError, envVars, chkVars, pkgVars, upVars, pollVars, endVars,
                   intVars>>

\* ------------------------------------------------------- create_package
\* An exception raised inside create_package's try block: the `with`
\* statement closes the writer, then `except Exception` returns False, or
\* the exception leaves create_package and reaches deploy's handlers.
PackageRaise(exc) ==
    /\ writerOpen' = FALSE
    /\ interrupted' = (interrupted \/ exc = "KeyboardInterrupt")
    /\ IF Catches("create_package", exc)
         THEN /\ pkgResult' = "fail"
              /\ pc' = "after_package"
         ELSE /\ pkgResult' = pkgResult
              /\ pc' = "interrupted"

\* Lines 40-44: choose the source directory and check that it exists.
CheckSource ==
    /\ pc = "create_package"
    /\ IF sourceExists
         THEN /\ pc' = "zip_open"
              /\ pkgResult' = pkgResult
         ELSE /\ pc' = "after_package"
              /\ pkgResult' = "fail"
    /\ UNCHANGED <<mainVars, envVars, chkVars, archiveExists, writerOpen, walkVars,
                   checksumAt, upVars, pollVars, endVars, intVars>>

\* Line 47-48: zipfile.ZipFile(package_name, 'w') creates the archive
\* file; os.walk starts at the source directory.
ZipOpen ==
    /\ pc = "zip_open"
    /\ \E exc \in Exceptions \cup {"ok"} :
         IF exc = "ok"
           THEN /\ archiveExists' = TRUE
                /\ writerOpen' = TRUE
                /\ walkTodo' = {<<>>}
                /\ pc' = "zip_walk"
                /\ UNCHANGED <<pkgResult, interrupted>>
           ELSE /\ PackageRaise(exc)
                /\ UNCHANGED <<archiveExists, walkTodo>>
    /\ UNCHANGED <<mainVars, envVars, chkVars, filesAdded, pendingFiles, members,
                   checksumAt, upVars, pollVars, endVars, caught>>

\* Lines 50-52: os.walk lists one directory; the hidden subdirectories are
\* removed from dirs before the walk descends.  (The order in which
\* directories and files are listed does not matter here and is left open.)
WalkDir ==
    /\ pc = "zip_walk"
    /\ \E d \in walkTodo :
         LET kids  == Children(tree, d)
             dirs  == {e.path : e \in {k \in kids : k.dir}}
             plain == {e.path : e \in {k \in kids : ~k.dir}}
             todo  == (walkTodo \ {d}) \cup PrunedDirs(dirs)
         IN  /\ walkTodo' = todo
             /\ pendingFiles' = plain
             /\ pc' = WalkPc(todo, plain)
    /\ UNCHANGED <<mainVars, envVars, chkVars, archiveExists, writerOpen, filesAdded,
                   members, checksumAt, pkgResult, upVars, pollVars, endVars,
                   intVars>>

\* Lines 54-62: one file of the listed directory: a hidden file is
\* skipped, any other is written under its path relative to the source
\* directory and counted.
ZipWrite ==
    /\ pc = "zip_write"
    /\ \E f \in pendingFiles :
         IF StartsWithDot(f[Len(f)])
           THEN /\ pendingFiles' = pendingFiles \ {f}
                /\ pc' = WalkPc(walkTodo, pendingFiles \ {f})
                /\ UNCHANGED <<members, filesAdded, writerOpen, pkgResult,
                               interrupted>>
           ELSE \E exc \in Exceptions \cup {"ok"} :
                  IF exc = "ok"
                    THEN /\ members' = members \cup {f}
                         /\ filesAdded' = filesAdded + 1
                         /\ pendingFiles' = pendingFiles \ {f}
                         /\ pc' = WalkPc(walkTodo, pendingFiles \ {f})
                         /\ UNCHANGED <<writerOpen, pkgResult, interrupted>>
                    ELSE /\ PackageRaise(exc)
                         /\ UNCHANGED <<members, filesAdded, pendingFiles>>
    /\ UNCHANGED <<mainVars, envVars, chkVars, archiveExists, walkTodo, checksumAt,
                   upVars, pollVars, endVars, caught>>

\* Lines 66-68 and 76-82: calculate_checksum reads the archive file.  The
\* call stands inside the `with zipfile.ZipFile(...)` block.
Checksum ==
    /\ pc = "checksum"
    /\ checksumAt' = IF writerOpen THEN "open" ELSE "closed"
    /\ \E exc \in Exceptions \cup {"ok"} :
         IF exc = "ok"
           THEN /\ pc' = "zip_close"
                /\ UNCHANGED <<writerOpen, pkgResult, interrupted>>
           ELSE PackageRaise(exc)
    /\ UNCHANGED <<mainVars, envVars, chkVars, archiveExists, walkVars, upVars,
                   pollVars, endVars, caught>>

\* Line 70: `return True` leaves the with block, which closes the writer;
\* a close that raises is caught by `except Exception`.
ZipClose ==
    /\ pc = "zip_close"
    /\ writerOpen' = FALSE
    /\ \E ok \in BOOLEAN : pkgResult' = IF ok THEN "ok" ELSE "fail"
    /\ pc' = "after_package"
    /\ UNCHANGED <<mainVars, envVars, chkVars, archiveExists, walkVars, checksumAt, upVars,
                   pollVars, endVars, intVars>>

\* ---------------------------------------------------------------- deploy
\* Lines 251-252: `if not self.create_package(): return False`
AfterPackage ==
    /\ pc = "after_package"
    /\ IF ProceedAfterPackage(pkgResult = "ok")
         THEN /\ pc' = "upload_package"
              /\ result' = result
         ELSE /\ pc' = "done"
              /\ result' = "false"
    /\ UNCHANGED <<mainVars, envVars, chkVars, pkgVars, upVars, pollVars, success, cleanupRuns,
                   removeRaised, intVars>>

\* cleanup (lines 235-242): remove the archive if it exists; an os.remove
\* that raises is caught inside cleanup and only prints a warning.
CleanupBody(removeOk) ==
    IF ShouldRemove(archiveExists)
      THEN IF removeOk
             THEN /\ archiveExists' = FALSE
                  /\ removeRaised' = removeRaised
             ELSE /\ archiveExists' = archiveExists
                  /\ removeRaised' = TRUE
      ELSE /\ archiveExists' = archiveExists
           /\ removeRaised' = removeRaised

\* The exception of os.remove leaves cleanup.
CleanupEscapes(removeOk) ==
    /\ ShouldRemove(archiveExists)
    /\ ~removeOk
    /\ ~Catches("cleanup", "Exception")

\* Lines 257-266: cleanup, then return success.  An exception that left
\* cleanup would reach `except Exception` (lines 273-276): cleanup is
\* called again and deploy returns False, or the second call raises too
\* and the exception reaches main's `except Exception` (sys.exit(1)).
Cleanup ==
    /\ pc = "cleanup"
    /\ \E removeOk \in BOOLEAN :
         /\ CleanupBody(removeOk)
         /\ IF ~CleanupEscapes(removeOk)
              THEN /\ cleanupRuns' = cleanupRuns + 1
                   /\ result' = success
                   /\ pc' = "done"
                   /\ exitCode' = exitCode
              ELSE /\ cleanupRuns' = cleanupRuns + 2
                   /\ \/ /\ result' = "false"
                         /\ pc' = "done"
                         /\ exitCode' = exitCode
                      \/ /\ result' = result
                         /\ pc' = "exited"
                         /\ exitCode' = 1
    /\ UNCHANGED <<envUrl, envUser, envPass, base_url, username, password,
                   configError, envVars, chkVars, writerOpen, walkVars, checksumAt,
                   pkgResult, upVars, pollVars, success, intVars>>

\* Lines 268-271: except KeyboardInterrupt: cleanup, return False.  An
\* exception that left this cleanup would leave deploy and reach main's
\* `except Exception` (sys.exit(1)).
InterruptHandler ==
    /\ pc = "interrupted"
    /\ caught' = TRUE
    /\ cleanupRuns' = cleanupRuns + 1
    /\ \E removeOk \in BOOLEAN :
         /\ CleanupBody(removeOk)
         /\ IF ~CleanupEscapes(removeOk)
              THEN /\ result' = "false"
                   /\ pc' = "done"
                   /\ exitCode' = exitCode
              ELSE /\ result' = result
                   /\ pc' = "exited"
                   /\ exitCode' = 1
    /\ UNCHANGED <<envUrl, envUser, envPass, base_url, username, password,
                   configError, envVars, chkVars, writerOpen, walkVars, checksumAt,
                   pkgResult, upVars, pollVars, success, interrupted>>

\* -------------------------------------------------------- upload_package
\* upload_package returns False from one of its `except` clauses or from
\* a non-200 branch: deploy goes on to cleanup with success = False.
UploadFails(outcome) ==
    /\ uploadOutcome' = outcome
    /\ success' = "false"
    /\ pc' = "cleanup"

\* Lines 88-95: the archive must exist; then it is opened for reading.
UploadCheck ==
    /\ pc = "upload_package"
    /\ IF archiveExists
         THEN /\ pc' = "get_version_info"
              /\ UNCHANGED <<uploadOutcome, success>>
         ELSE UploadFails("NoPackage")
    /\ UNCHANGED <<mainVars, envVars, chkVars, pkgVars, versionLabel, posts, uploadCode,
                   uploadBody, pollVars, result, cleanupRuns, removeRaised,
                   intVars>>

\* Lines 153-172, called at line 102: `git rev-parse` via subprocess.run;
\* an exception raised in the try block meets the bare `except:`.
GetVersion ==
    /\ pc = "get_version_info"
    /\ \E r \in {"git_ok", "git_fail"} \cup Exceptions :
         /\ interrupted' = (interrupted \/ r = "KeyboardInterrupt")
         /\ IF r \in Exceptions
              THEN IF Catches("get_version_info", r)
                     THEN /\ versionLabel' = "build"
                          /\ pc' = "post"
                          /\ UNCHANGED <<uploadOutcome, success>>
                     ELSE /\ versionLabel' = versionLabel
                          /\ IF Catches("upload_package", r)
                               THEN UploadFails("Error")
                               ELSE /\ pc' = "interrupted"
                                    /\ UNCHANGED <<uploadOutcome, success>>
              ELSE /\ versionLabel' = IF r = "git_ok" THEN "git" ELSE "build"
                   /\ pc' = "post"
                   /\ UNCHANGED <<uploadOutcome, success>>
    /\ UNCHANGED <<mainVars, envVars, chkVars, pkgVars, posts, uploadCode, uploadBody,
                   pollVars, result, cleanupRuns, removeRaised, caught>>

\* The outcome upload_package's handlers give an exception of requests.post.
PostExceptionOutcome(exc) ==
    CASE exc = "Timeout"         -> "NetworkTimeout"
      [] exc = "ConnectionError" -> "ConnectionFailure"
      [] OTHER                   -> "Error"

\* Lines 108-151: the single requests.post and the mapping of its result.
Post ==
    /\ pc = "post"
    /\ posts' = posts + 1
    /\ \E exc \in PostExceptions \cup {"ok"}, code \in UploadCodes,
          body \in UploadBodies :
         /\ interrupted' = (interrupted \/ exc = "KeyboardInterrupt")
         /\ IF exc # "ok"
              THEN /\ uploadCode' = uploadCode
                   /\ uploadBody' = uploadBody
                   /\ IF Catches("upload_package", exc)
                        THEN UploadFails(PostExceptionOutcome(exc))
                        ELSE /\ pc' = "interrupted"
                             /\ UNCHANGED <<uploadOutcome, success>>
              ELSE /\ uploadCode' = code
                   /\ uploadBody' = IF code = 200 THEN body ELSE "none"
                   /\ IF code = 200 /\ body = "badjson"
                        THEN UploadFails("Error")
                        ELSE IF code = 200 /\ body = "id"
                               THEN /\ uploadOutcome' = UploadOutcomeOf(code)
                                    /\ pc' = "poll_loop"
                                    /\ success' = success
                               ELSE /\ uploadOutcome' = UploadOutcomeOf(code)
                                    /\ success' =
                                         PyBool(UploadReturn(UploadOutcomeOf(code)))
                                    /\ pc' = "cleanup"
    /\ UNCHANGED <<mainVars, envVars, chkVars, pkgVars, versionLabel, pollVars, result,
                   cleanupRuns, removeRaised, caught>>

\* ---------------------------------------------------- monitor_processing
\* monitor_processing returns; upload_package returns that value to deploy.
PollReturns(outcome, value) ==
    /\ pollOutcome' = outcome
    /\ success' = PyBool(value)
    /\ pc' = "cleanup"

\* Line 182 and lines 232-233: the loop test and the timeout return.
PollLoop ==
    /\ pc = "poll_loop"
    /\ IF LoopContinues(attempt)
         THEN /\ pc' = "poll_query"
              /\ UNCHANGED <<pollOutcome, success>>
         ELSE PollReturns("timeout", FALSE)
    /\ UNCHANGED <<mainVars, envVars, chkVars, pkgVars, upVars, attempt, queries, waits, slept,
                   labelQueries, failedQueries, lastStatus, waitBranch,
                   result, cleanupRuns, removeRaised, intVars>>

\* A status query that raised (requests.get or response.json()): the
\* handler of monitor_processing, else the one of upload_package, else
\* the exception reaches deploy.
QueryRaises(exc) ==
    /\ lastStatus' = lastStatus
    /\ labelQueries' = labelQueries
    /\ failedQueries' = IF exc = "KeyboardInterrupt"
                          THEN failedQueries ELSE failedQueries + 1
    /\ IF Catches("monitor_processing", exc)
         THEN /\ waitBranch' = "exception"
              /\ pc' = "poll_wait"
              /\ UNCHANGED <<pollOutcome, success, uploadOutcome>>
         ELSE /\ waitBranch' = waitBranch
              /\ pollOutcome' = pollOutcome
              /\ IF Catches("upload_package", exc)
                   THEN UploadFails("Error")
                   ELSE /\ pc' = "interrupted"
                        /\ UNCHANGED <<uploadOutcome, success>>

\* Lines 184-230 up to the sleep: one requests.get and its branches.
PollQuery ==
    /\ pc = "poll_query"
    /\ queries' = queries + 1
    /\ \E exc \in Exceptions \cup {"ok"}, code \in StatusCodes,
          body \in StatusBodies :
         /\ interrupted' = (interrupted \/ exc = "KeyboardInterrupt")
         /\ IF exc # "ok"
              THEN QueryRaises(exc)
              ELSE IF code # 200
                THEN /\ failedQueries' = failedQueries + 1
                     /\ waitBranch' = "non200"
                     /\ pc' = "poll_wait"
                     /\ UNCHANGED <<lastStatus, labelQueries, pollOutcome,
                                    success, uploadOutcome>>
                ELSE IF body = "badjson"
                  THEN QueryRaises("Exception")
                  ELSE /\ lastStatus' = GetStatus(body)
                       /\ failedQueries' = failedQueries
                       /\ uploadOutcome' = uploadOutcome
                       /\ LET branch == StatusBranch(GetStatus(body))
                          IN  CASE branch = "completed" ->
                                     /\ PollReturns("completed", TRUE)
                                     /\ UNCHANGED <<waitBranch, labelQueries>>
                                [] branch = "failed" ->
                                     /\ PollReturns("failed", FALSE)
                                     /\ UNCHANGED <<waitBranch, labelQueries>>
                                [] OTHER ->
                                     /\ waitBranch' = branch
                                     /\ labelQueries' = labelQueries + 1
                                     /\ pc' = "poll_wait"
                                     /\ UNCHANGED <<pollOutcome, success>>
    /\ UNCHANGED <<mainVars, envVars, chkVars, pkgVars, versionLabel, posts, uploadCode,
                   uploadBody, attempt, waits, slept, result, cleanupRuns,
                   removeRaised, caught>>

\* time.sleep(10); attempt += 1; continue -- in each of the four waiting
\* branches (lines 210-212, 216-218, 222-224, 228-230).  A
\* KeyboardInterrupt ends the sleep and leaves monitor_processing and
\* upload_package, neither of which catches it.
PollWait ==
    /\ pc = "poll_wait"
    /\ \E exc \in {"ok", "KeyboardInterrupt"} :
         IF exc = "ok"
           THEN /\ waits' = waits + 1
                /\ slept' = slept + sleep_seconds(waitBranch)
                /\ attempt' = attempt + 1
                /\ pc' = "poll_loop"
                /\ interrupted' = interrupted
           ELSE /\ interrupted' = TRUE
                /\ pc' = "interrupted"
                /\ UNCHANGED <<waits, slept, attempt>>
    /\ UNCHANGED <<mainVars, envVars, chkVars, pkgVars, upVars, queries, labelQueries,
                   failedQueries, lastStatus, waitBranch, pollOutcome,
                   endVars, caught>>

\* ------------------------------------------------------------------ spec
Next ==
    \/ Construct
    \/ MainExit
    \/ CheckSource
    \/ ZipOpen
    \/ WalkDir
    \/ ZipWrite
    \/ Checksum
    \/ ZipClose
    \/ AfterPackage
    \/ UploadCheck
    \/ GetVersion
    \/ Post
    \/ PollLoop
    \/ PollQuery
    \/ PollWait
    \/ Cleanup
    \/ InterruptHandler

Spec == Init /\ [][Next]_vars

\* The program is a single thread that always takes its next step.
FairSpec == Spec /\ WF_vars(Next)

\* ----------------------------------------------------------- lint_docs.py
\* The upload script does not run: the state of its variables during a
\* lint or validation run.
UploaderIdle ==
    /\ pc = "idle"
    /\ envUrl = Unset /\ envUser = Unset /\ envPass = Unset
    /\ base_url = <<>> /\ username = <<>> /\ password = <<>>
    /\ configError = FALSE /\ exitCode = -1
    /\ sourceExists = FALSE /\ tree = {}
    /\ archiveExists = FALSE /\ writerOpen = FALSE /\ filesAdded = 0
    /\ walkTodo = {} /\ pendingFiles = {} /\ members = {}
    /\ checksumAt = "none" /\ pkgResult = "none"
    /\ versionLabel = "none" /\ posts = 0 /\ uploadCode = 0
    /\ uploadOutcome = "none" /\ uploadBody = "none"
    /\ attempt = 0 /\ queries = 0 /\ waits = 0 /\ slept = 0
    /\ labelQueries = 0 /\ failedQueries = 0 /\ lastStatus = "none"
    /\ waitBranch = "none" /\ pollOutcome = "none"
    /\ success = "none" /\ result = "none" /\ cleanupRuns = 0
    /\ removeRaised = FALSE /\ interrupted = FALSE /\ caught = FALSE

uploadVars == <<pc, mainVars, envVars, pkgVars, upVars, pollVars, endVars,
                intVars>>

\* A run that has not started: nothing recorded yet.
RunStart ==
    /\ chkPc = "start"
    /\ fileIdx = 0
    /\ errors = <<>>
    /\ warnings = <<>>
    /\ runSuccess = "none"
    /\ runResult = "none"
    /\ chkExit = -1

\* All sequences of at most n elements of set S.
SeqsUpTo(S, n) == UNION {[1..k -> S] : k \in 0..n}

\* Every readable Markdown file within the bounds.
AllMdFiles ==
    {MdFile(ls, nl, TRUE) : ls \in SeqsUpTo(LineVocab, MaxLines),
                            nl \in BOOLEAN}

\* The Markdown files of a run over several files: a clean file, one with
\* warnings only, one without H1, one with two H1 and an unclosed block,
\* one with a link and no final newline, and one that cannot be read.
SampleMdFiles ==
    { MdFile(<<H1Line, TextLine>>, TRUE, TRUE),
      MdFile(<<H1Line, H3Line, BulletLine>>, TRUE, TRUE),
      MdFile(<<TextLine>>, TRUE, TRUE),
      MdFile(<<H1Line, H1Line, FenceLangLine>>, TRUE, TRUE),
      MdFile(<<H1Line, LinkLine>>, FALSE, TRUE),
      MdFile(<<>>, FALSE, FALSE) }

\* lint_all_files, lines 30-37: the glob; no file at all is a failure.
LintStart ==
    /\ program = "lint"
    /\ chkPc = "start"
    /\ IF Len(files) = 0
         THEN /\ runResult' = "false"
              /\ chkPc' = "returned"
              /\ runSuccess' = runSuccess
         ELSE /\ runSuccess' = "true"
              /\ chkPc' = "loop"
              /\ runResult' = runResult
    /\ UNCHANGED <<uploadVars, program, files, targetsExist, fileIdx, errors,
                   warnings, chkExit>>

\* lint_all_files, lines 38-40, with lint_file: the next file.
LintFile ==
    /\ program = "lint"
    /\ chkPc = "loop"
    /\ fileIdx < Len(files)
    /\ LET r == lint_file(fileIdx + 1, files[fileIdx + 1], targetsExist)
       IN  /\ errors' = errors \o r.errs
           /\ warnings' = warnings \o r.warns
           /\ runSuccess' = IF r.ok THEN runSuccess ELSE "false"
    /\ fileIdx' = fileIdx + 1
    /\ UNCHANGED <<uploadVars, program, files, targetsExist, chkPc, runResult,
                   chkExit>>

\* lint_all_files, lines 42-43: print_summary, return success.
LintFinish ==
    /\ program = "lint"
    /\ chkPc = "loop"
    /\ fileIdx = Len(files)
    /\ runResult' = runSuccess
    /\ chkPc' = "returned"
    /\ UNCHANGED <<uploadVars, program, files, targetsExist, fileIdx, errors,
                   warnings, runSuccess, chkExit>>

\* main of lint_docs.py (lines 196-203) and of validate_yaml.py (lines
\* 259-266): exit code 1 unless the run returned True.
CheckExit ==
    /\ chkPc = "returned"
    /\ chkExit' = IF runResult = "true" THEN 0 ELSE 1
    /\ chkPc' = "exited"
    /\ UNCHANGED <<uploadVars, program, files, targetsExist, fileIdx, errors,
                   warnings, runSuccess, runResult>>

\* lint_docs.py on a docs directory with one readable Markdown file, over
\* every such file within the bounds.
LintFileInit ==
    /\ UploaderIdle
    /\ program = "lint"
    /\ files \in {<<f>> : f \in AllMdFiles}
    /\ targetsExist \in BOOLEAN
    /\ RunStart

LintNext ==
    \/ LintStart
    \/ LintFile
    \/ LintFinish
    \/ CheckExit

LintFileSpec == LintFileInit /\ [][LintNext]_vars

\* ------------------------------------------------------- validate_yaml.py
MkdocsPath == YamlPath(<<>>, "mkdocs", "yml")
WorkflowPath == YamlPath(<<".github", "workflows">>, "ci", "yml")
WorkflowYamlPath == YamlPath(<<".github", "workflows">>, "ci", "yaml")
ComposePath == YamlPath(<<>>, "docker-compose", "yml")
ConfigPath == YamlPath(<<>>, "config", "yaml")

\* The YAML files of a run: MkDocs configurations (complete; without
\* docs_dir and with a theme without name; with an empty nav entry; the
\* same without site_name; a bare number), workflows (complete; one job
\* without steps and one that is no mapping; a list; the complete one
\* under the other extension), compose files (one service with an image
\* and no version; a service with neither image nor build; a bare string),
\* and other files (a list, an empty file, an unreadable file, a file with
\* a syntax error).
SampleYamlFiles ==
    { YamlFile(MkdocsPath, TRUE, TRUE,
          PyDict(<< <<k_site_name, PyStr(SomeText)>>,
                    <<k_docs_dir, PyStr(DocsDirName)>>,
                    <<k_nav, PyList(<<PyDict(<< <<SomeText,
                                                  PyStr(PageName)>> >>)>>)>>,
                    <<k_theme, PyDict(<< <<k_name, PyStr(SomeText)>> >>)>> >>)),
      YamlFile(MkdocsPath, TRUE, TRUE,
          PyDict(<< <<k_site_name, PyStr(SomeText)>>,
                    <<k_theme, PyDict(<<>>)>> >>)),
      YamlFile(MkdocsPath, TRUE, TRUE,
          PyDict(<< <<k_site_name, PyStr(SomeText)>>,
                    <<k_docs_dir, PyStr(<<>>)>>,
                    <<k_nav, PyNone>> >>)),
      YamlFile(MkdocsPath, TRUE, TRUE,
          PyDict(<< <<k_docs_dir, PyStr(<<>>)>>, <<k_nav, PyNone>> >>)),
      YamlFile(MkdocsPath, TRUE, TRUE, PyInt(42)),
      YamlFile(WorkflowPath, TRUE, TRUE,
          PyDict(<< <<k_name, PyStr(SomeText)>>,
                    <<k_on, PyStr(SomeText)>>,
                    <<k_jobs, PyDict(<< <<SomeText,
                          PyDict(<< <<k_runs_on, PyStr(SomeText)>>,
                                    <<k_steps, PyList(<<>>)>> >>)>> >>)>> >>)),
      YamlFile(WorkflowPath, TRUE, TRUE,
          PyDict(<< <<k_name, PyStr(SomeText)>>,
                    <<k_jobs, PyDict(<<
                          <<SomeText,
                            PyDict(<< <<k_runs_on, PyStr(SomeText)>> >>)>>,
                          <<PageName, PyStr(SomeText)>> >>)>> >>)),
      YamlFile(WorkflowPath, TRUE, TRUE, PyList(<<PyStr(k_name)>>)),
      YamlFile(WorkflowYamlPath, TRUE, TRUE,
          PyDict(<< <<k_name, PyStr(SomeText)>> >>)),
      YamlFile(ComposePath, TRUE, TRUE,
          PyDict(<< <<k_services, PyDict(<< <<SomeText,
                          PyDict(<< <<k_image, PyStr(SomeText)>> >>)>> >>)>> >>)),
      YamlFile(ComposePath, TRUE, TRUE,
          PyDict(<< <<k_version, PyStr(SomeText)>>,
                    <<k_services, PyDict(<< <<SomeText, PyDict(<<>>)>> >>)>> >>)),
      YamlFile(ComposePath, TRUE, TRUE, PyStr(k_services)),
      YamlFile(ConfigPath, TRUE, TRUE, PyList(<<PyInt(1)>>)),
      YamlFile(ConfigPath, TRUE, TRUE, PyNone),
      YamlFile(ConfigPath, FALSE, FALSE, PyNone),
      YamlFile(ConfigPath, TRUE, FALSE, PyNone) }

\* find_yaml_files: the files found, each path once, in the order the set
\* of line 57 gives them.
YamlRuns ==
    {run \in SeqsUpTo(SampleYamlFiles, MaxDocs) :
        \A i, j \in 1..Len(run) : run[i].path = run[j].path => i = j}

\* validate_all_files, lines 34-41: no file at all is a failure.
YamlStart ==
    /\ program = "yaml"
    /\ chkPc = "start"
    /\ IF Len(files) = 0
         THEN /\ runResult' = "false"
              /\ chkPc' = "returned"
              /\ runSuccess' = runSuccess
         ELSE /\ runSuccess' = "true"
              /\ chkPc' = "loop"
              /\ runResult' = runResult
    /\ UNCHANGED <<uploadVars, program, files, targetsExist, fileIdx, errors,
                   warnings, chkExit>>

\* validate_all_files, lines 42-44, with validate_file: the next file. No
\* handler is around the validators, so an exception that leaves one
\* leaves validate_all_files and main as well.
YamlValidate ==
    /\ program = "yaml"
    /\ chkPc = "loop"
    /\ fileIdx < Len(files)
    /\ LET r == validate_file(fileIdx + 1, files[fileIdx + 1], targetsExist)
       IN  /\ errors' = errors \o r.errs
           /\ warnings' = warnings \o r.warns
           /\ IF r.raised
                THEN /\ chkPc' = "raised"
                     /\ UNCHANGED <<fileIdx, runSuccess>>
                ELSE /\ chkPc' = chkPc
                     /\ fileIdx' = fileIdx + 1
                     /\ runSuccess' = IF r.ok THEN runSuccess ELSE "false"
    /\ UNCHANGED <<uploadVars, program, files, targetsExist, runResult,
                   chkExit>>

\* validate_all_files, lines 46-47: print_summary, return success.
YamlFinish ==
    /\ program = "yaml"
    /\ chkPc = "loop"
    /\ fileIdx = Len(files)
    /\ runResult' = runSuccess
    /\ chkPc' = "returned"
    /\ UNCHANGED <<uploadVars, program, files, targetsExist, fileIdx, errors,
                   warnings, runSuccess, chkExit>>

\* An exception nothing caught ends the interpreter with status 1; main
\* never gets a flag.
UncaughtExit ==
    /\ chkPc = "raised"
    /\ chkExit' = 1
    /\ chkPc' = "exited"
    /\ UNCHANGED <<uploadVars, program, files, targetsExist, fileIdx, errors,
                   warnings, runSuccess, runResult>>

\* lint_docs.py or validate_yaml.py on a project with up to MaxDocs files.
CheckInit ==
    /\ UploaderIdle
    /\ program \in {"lint", "yaml"}
    /\ files \in (IF program = "lint" THEN SeqsUpTo(SampleMdFiles, MaxDocs)
                  ELSE YamlRuns)
    /\ targetsExist \in BOOLEAN
    /\ RunStart

CheckNext ==
    \/ LintStart
    \/ LintFile
    \/ LintFinish
    \/ YamlStart
    \/ YamlValidate
    \/ YamlFinish
    \/ UncaughtExit
    \/ CheckExit

CheckSpec == CheckInit /\ [][CheckNext]_vars

\* create_package alone, called on an uploader that was constructed, over
\* every source tree within the bounds.
PackInit ==
    /\ pc = "create_package"
    /\ envUrl = SetTo(<<"h", "/">>)
    /\ envUser = SetTo(<<"x">>)
    /\ envPass = SetTo(<<"x">>)
    /\ base_url = <<"h">>
    /\ username = <<"x">>
    /\ password = <<"x">>
    /\ configError = FALSE
    /\ exitCode = -1
    /\ sourceExists \in BOOLEAN
    /\ tree \in Trees
    /\ ~sourceExists => tree = {}
    /\ archiveExists = FALSE
    /\ writerOpen = FALSE
    /\ filesAdded = 0
    /\ walkTodo = {}
    /\ pendingFiles = {}
    /\ members = {}
    /\ checksumAt = "none"
    /\ pkgResult = "none"
    /\ versionLabel = "none"
    /\ posts = 0
    /\ uploadCode = 0
    /\ uploadOutcome = "none"
    /\ uploadBody = "none"
    /\ attempt = 0
    /\ queries = 0
    /\ waits = 0
    /\ slept = 0
    /\ labelQueries = 0
    /\ failedQueries = 0
    /\ lastStatus = "none"
    /\ waitBranch = "none"
    /\ pollOutcome = "none"
    /\ success = "none"
    /\ result = "none"
    /\ cleanupRuns = 0
    /\ removeRaised = FALSE
    /\ interrupted = FALSE
    /\ caught = FALSE
    /\ CheckerIdle

PackNext ==
    \/ CheckSource
    \/ ZipOpen
    \/ WalkDir
    \/ ZipWrite
    \/ Checksum
    \/ ZipClose

PackSpec == PackInit /\ [][PackNext]_vars

TypeOK ==
    /\ pc \in {"idle", "main", "exited", "create_package", "zip_open", "zip_walk",
               "zip_write", "checksum",
               "zip_close", "after_package", "upload_package",
               "get_version_info", "post", "poll_loop", "poll_query",
               "poll_wait", "cleanup", "interrupted", "done"}
    /\ filesAdded \in 0..Cardinality(tree)
    /\ attempt \in 0..max_attempts
    /\ result \in {"none", "true", "false"}
    /\ success \in {"none", "true", "false"}

\* ---------------------------------------------------------------- claims
PollPcs == {"poll_loop", "poll_query", "poll_wait"}

\* C1: cleanup runs exactly once per deploy() invocation, whichever step
\* failed, also when create_package returns failure.
CleanupExactlyOnce == (pc = "done") => (cleanupRuns = 1)

\* C2: a KeyboardInterrupt arriving during any step of deploy() is caught
\* by deploy, triggers cleanup and makes deploy() return False.
InterruptIsFailedRun ==
    (pc = "done" /\ interrupted) =>
        (caught /\ cleanupRuns >= 1 /\ result = "false")

\* C3: the checksum read of the archive never happens while the archive
\* writer is still open.
DigestAfterClose == checksumAt # "open"

\* C4: the upload request is issued only after create_package finished
\* successfully, a status query only after the upload request returned,
\* and nothing of packaging, upload or polling happens once cleanup runs.
OrderingGuarantee ==
    /\ [](posts > 0 => (pkgResult = "ok" /\ ~writerOpen))
    /\ [](queries > 0 => (posts > 0 /\ uploadCode # 0 /\ pc # "post"))
    /\ [][(cleanupRuns > 0 \/ cleanupRuns' # cleanupRuns) =>
            /\ UNCHANGED <<writerOpen, filesAdded, members, checksumAt,
                           pkgResult>>
            /\ UNCHANGED <<versionLabel, posts, uploadCode, uploadOutcome,
                           uploadBody>>
            /\ UNCHANGED <<queries, waits, attempt>>
            /\ pc' \in {"done", "exited"}]_vars

OrderingWitness ==
    /\ pc = "done" /\ cleanupRuns = 1
    /\ interrupted /\ caught
    /\ pkgResult = "ok" /\ posts = 1 /\ queries = 3 /\ waits = 2

\* C5: monitor_processing returns through the Completed branch only when
\* the observed status label is the literal "completed", through the
\* Failed branch only on the literal "failed", and with the timeout
\* outcome, a failure, once 30 attempts are used up by anything else.
PollerVerdict ==
    /\ pollOutcome = "completed" =>
           (lastStatus = "completed" /\ success = "true")
    /\ pollOutcome = "failed" =>
           (lastStatus = "failed" /\ success = "false")
    /\ pollOutcome = "timeout" =>
           (attempt = 30 /\ lastStatus \notin {"completed", "failed"}
              /\ success = "false")
    /\ (pc = "done" /\ queries > 0 /\ result = "true") =>
           lastStatus = "completed"

PollerVerdictWitness ==
    /\ pc = "done" /\ pollOutcome = "timeout" /\ result = "false"
    /\ lastStatus = "Completed" /\ labelQueries = 30

\* C6: the poller issues at most 30 status queries, returns the timeout
\* outcome (a failure) when they are used up, and always leaves its loop.
PollerTerminates ==
    /\ [](queries <= 30)
    /\ [](pollOutcome = "timeout" => (queries = 30 /\ success = "false"))
    /\ [](pc = "done" /\ pollOutcome = "timeout" => result = "false")
    /\ (pc \in PollPcs) ~> (pc \notin PollPcs)

PollerTerminatesWitness ==
    /\ pc = "done" /\ pollOutcome = "timeout" /\ queries = 30
    /\ failedQueries > 0 /\ labelQueries > 0 /\ result = "false"

\* C7: a failed status query (non-200 or a raised Exception) does not end
\* the poll loop: it is followed by the fixed wait, costs one attempt of
\* the one budget, and the loop goes on.
FailedQueryKeepsPolling ==
    /\ [][(pc = "poll_query" /\ failedQueries' # failedQueries) =>
            (pc' = "poll_wait" /\ pollOutcome' = "none"
               /\ attempt' = attempt)]_vars
    /\ [][(pc = "poll_wait" /\ pc' # "interrupted") =>
            (pc' = "poll_loop" /\ attempt' = attempt + 1
               /\ waits' = waits + 1 /\ slept' = slept + 10)]_vars
    /\ [](pc = "poll_loop" =>
            (attempt = failedQueries + labelQueries /\ attempt = queries))

FailedQueryWitness ==
    /\ pc = "done" /\ pollOutcome = "completed" /\ result = "true"
    /\ failedQueries = 2 /\ labelQueries = 0 /\ queries = 3 /\ slept = 20

\* C8: non-terminal labels on the first k-1 queries and "completed" on the
\* k-th (1 <= k <= 30): Completed after exactly k queries and k-1 waits of
\* 10 time-units each.
CompletedOnKth ==
    (pollOutcome = "completed" /\ failedQueries = 0) =>
        /\ queries = labelQueries + 1
        /\ queries <= 30
        /\ waits = labelQueries
        /\ slept = 10 * labelQueries
        /\ success = "true"

\* Scenario D: k = 6.
ScenarioD ==
    /\ pc = "done" /\ pollOutcome = "completed" /\ failedQueries = 0
    /\ queries = 6 /\ waits = 5 /\ slept = 50 /\ result = "true"

\* C9: an upload answered with 401, 413 or any other non-200 status: no
\* status polling, cleanup removes the local archive (unless os.remove
\* itself raises, which cleanup reports as a warning), deploy() returns
\* False.
UploadRejected ==
    (pc = "done" /\ uploadCode \notin {0, 200}) =>
        /\ queries = 0
        /\ pollOutcome = "none"
        /\ cleanupRuns = 1
        /\ (archiveExists => removeRaised)
        /\ result = "false"

ScenarioC ==
    /\ pc = "done" /\ uploadCode = 401 /\ uploadOutcome = "AuthFailure"
    /\ queries = 0 /\ cleanupRuns = 1 /\ ~archiveExists /\ result = "false"

\* C10: at most one upload POST per deploy(); a non-200 status, a request
\* timeout or a connection failure is reported as failure, with no second
\* POST.
SingleUploadAttempt ==
    /\ posts <= 1
    /\ (pc = "done" /\ uploadOutcome \in
            {"AuthFailure", "PayloadTooLarge", "ServerError",
             "NetworkTimeout", "ConnectionFailure"}) =>
           (posts = 1 /\ result = "false")

SingleUploadWitness ==
    /\ pc = "done" /\ uploadOutcome = "NetworkTimeout"
    /\ posts = 1 /\ result = "false"

\* C11: when FLUID_URL, FLUID_USER or FLUID_PASS is unset or empty, the
\* constructor fails before any packaging or network activity: no archive
\* is written, no upload or status request is sent, and the process exits
\* with code 1.
ConfigMissing ==
    \/ ~envUrl.set \/ envUrl.val = <<>>
    \/ ~envUser.set \/ envUser.val = <<>>
    \/ ~envPass.set \/ envPass.val = <<>>

FailFastOnMissingConfig ==
    (ConfigMissing /\ pc # "main") =>
        /\ pc = "exited" /\ configError /\ exitCode = 1
        /\ ~archiveExists /\ ~writerOpen /\ filesAdded = 0
        /\ pkgResult = "none" /\ checksumAt = "none"
        /\ posts = 0 /\ queries = 0 /\ result = "none"

FailFastWitness ==
    /\ pc = "exited" /\ configError /\ exitCode = 1
    /\ envUrl = SetTo(<<"h", "/">>) /\ envUser = SetTo(<<"x">>)
    /\ ~envPass.set
    /\ ~archiveExists /\ posts = 0 /\ queries = 0

\* C15: without an interruption, deploy() returns True exactly when
\* packaging succeeded, the upload got HTTP 200 with a parseable JSON body,
\* and that body either has no upload_id (no polling) or the poller
\* observed "completed" within its 30 attempts; whether os.remove
\* succeeds or raises in cleanup does not change the value.
DeploySucceeds ==
    /\ pkgResult = "ok"
    /\ uploadCode = 200
    /\ \/ uploadBody = "noid" /\ queries = 0
       \/ uploadBody = "id" /\ lastStatus = "completed" /\ queries \in 1..30

DeployVerdict ==
    (pc \in {"done", "exited"} /\ ~configError /\ ~interrupted) =>
        /\ result \in {"true", "false"}
        /\ (result = "true") <=> DeploySucceeds

DeployVerdictWitness ==
    /\ pc = "done" /\ ~interrupted /\ result = "true"
    /\ removeRaised /\ archiveExists /\ cleanupRuns = 1
    /\ uploadBody = "id" /\ queries = 30

\* C13: packaging leaves out every hidden entry (name starting with '.')
\* and everything below a hidden directory, and the reported file count
\* is the number of files of the tree that are not hidden in this sense.
HiddenPath(path) == \E i \in 1..Len(path) : path[i][1] = "."

VisibleFiles == {e.path : e \in {x \in tree : ~x.dir /\ ~HiddenPath(x.path)}}

WalkFinished == pc \in {"checksum", "zip_close"} \/ pkgResult = "ok"

PackagingSkipsHidden ==
    /\ \A m \in members : ~HiddenPath(m)
    /\ members \subseteq VisibleFiles
    /\ filesAdded = Cardinality(members)
    /\ WalkFinished =>
          (members = VisibleFiles /\ filesAdded = Cardinality(VisibleFiles))

PackagingWitness ==
    /\ pkgResult = "ok"
    /\ Dir(<<HiddenName>>) \in tree
    /\ File(<<HiddenName, PlainName>>) \in tree
    /\ File(<<PlainName, HiddenName>>) \in tree
    /\ members = {<<PlainName, PlainName>>}
    /\ filesAdded = 1

\* C14: a Markdown file whose only defects are two H1 headings and an
\* unclosed code block gets exactly two errors, the H1 count and the
\* unclosed block, and no warning.
CountLines(lines, line) == Cardinality({i \in 1..Len(lines) : lines[i] = line})

\* The file is made of H1 headings, fences that name a language and plain
\* text, ends with a newline, and has two H1 lines and an odd number of
\* fences.
TwoH1AndUnclosedBlock(file) ==
    /\ file.readable /\ file.newline
    /\ \A i \in 1..Len(file.lines) :
          file.lines[i] \in {H1Line, FenceLangLine, TextLine}
    /\ CountLines(file.lines, H1Line) = 2
    /\ CountLines(file.lines, FenceLangLine) % 2 = 1

ScenarioBTwoErrors ==
    (program = "lint" /\ Len(files) = 1 /\ fileIdx = 1
       /\ TwoH1AndUnclosedBlock(files[1])) =>
        /\ errors = <<Entry(1, "h1_count", 2), Entry(1, "unclosed_block", 0)>>
        /\ warnings = <<>>
        /\ runSuccess = "false"

ScenarioB ==
    /\ program = "lint" /\ chkPc = "exited" /\ chkExit = 1
    /\ files = <<MdFile(<<H1Line, FenceLangLine, H1Line>>, TRUE, TRUE)>>
    /\ Len(errors) = 2 /\ warnings = <<>>

\* C12: in a lint run and in a YAML validation run every file found is
\* checked, whatever was recorded for the files before it; the run's flag
\* is false when an error was recorded and true when files were found and
\* none has an error, warnings or not.
ErrorsNeverStopRun ==
    (chkPc = "exited" /\ program \in {"lint", "yaml"}) =>
        /\ fileIdx = Len(files)
        /\ errors # <<>> => runResult = "false"
        /\ (errors = <<>> /\ files # <<>>) => runResult = "true"

====
